---- MODULE Spec2Model ----
(***************************************************************************)
(* Kahani: WhatsApp conversation orchestration and voice-note ingestion.   *)
(*                                                                         *)
(* Four sub-models share this module:                                      *)
(*   GatewaySpec  the Twilio messaging gateway of client/src/tracks.ts     *)
(*                (retryWithBackoff, sendTextMessageWithRetry,             *)
(*                downloadVoiceNoteMedia, downloadMediaFile);              *)
(*   StoreSpec    the free_trials / voice_notes tables and their           *)
(*                constraints (the migration);                             *)
(*   ConvSpec     the conversation state machine, scheduler and ingestion  *)
(*                pipeline that drive the two above.                       *)
(*   PhoneSpec    normalizePhoneNumber of client/src/tracks.ts.            *)
(***************************************************************************)
EXTENDS Integers, Sequences, FiniteSets, TLC

VARIABLES
    \* ---- gateway (one call of a gateway function at a time) ----
    gwPc,        \* position inside the running gateway function
    gwOp,        \* which exported function is running
    gwVer,       \* which of the two definitions in tracks.ts (1: l.39-671, 2: l.673-1309)
    gwArgs,      \* its arguments and the process configuration
    gwAttempt,   \* retryWithBackoff: the loop variable `attempt`
    gwCalls,     \* provider outcomes of the calls made so far by this function call
    gwSleeps,    \* the delays slept so far by this function call
    gwRetry,     \* how retryWithBackoff ended: none / returned / threw (with the error)
    gwOut,       \* how the exported function ended: running / returned / threw
    gwInfo,      \* the media-info object returned by downloadVoiceNoteMedia
    gwLog,       \* (failure kind, returned value) of every finished send
    \* ---- store ----
    free_trials, \* the free_trials table: id -> row
    voice_notes, \* the voice_notes table: a set of rows
    dbResult,    \* the last statement on voice_notes / free_trials and its outcome
    \* ---- conversation ----
    h,           \* per handler execution: what it is waiting for (idle, a send, an ingestion)
    lastSend,    \* the send whose result the last step received (none otherwise)
    delivered,   \* per question: deliveries of its voice-note event handled to the end
    ingested,    \* per question: whether some delivery obtained the media bytes
    advanced,    \* per question: how often its answer advanced current_question_index
    windowSends, \* scheduler sends accepted since a driving timestamp last fell due
    misses,      \* non-affirmative or absent readiness replies handled so far
    texts,       \* inbound texts handled; welcome and readiness texts the gateway accepted
    \* ---- phone numbers ----
    phonePc,     \* idle / input / normalized / renormalized
    phoneIn,     \* the string given to normalizePhoneNumber
    phoneOut,    \* normalizePhoneNumber(phoneIn)
    phoneAgain   \* normalizePhoneNumber(phoneOut)

gwVars == <<gwPc, gwOp, gwVer, gwArgs, gwAttempt, gwCalls, gwSleeps, gwRetry,
            gwOut, gwInfo, gwLog>>

dbVars == <<free_trials, voice_notes, dbResult>>

convVars == <<h, lastSend, delivered, ingested, advanced, windowSends, misses, texts>>

\* What a gateway step leaves alone, and what a statement on the store does.
phoneVars == <<phonePc, phoneIn, phoneOut, phoneAgain>>

nonGwVars == <<dbVars, convVars, phoneVars>>

nonDbVars == <<gwVars, convVars, phoneVars>>

nonPhoneVars == <<gwVars, dbVars, convVars>>

vars == <<gwVars, dbVars, convVars, phoneVars>>

-----------------------------------------------------------------------------
(* Bounds and program constants *)

\* retryWithBackoff's default maxRetries
MaxRetries == 3

\* retryWithBackoff's default initialDelayMs
InitialDelayMs == 1000

\* Cap on the provider calls one gateway function call may make in the model
\* (above MaxRetries + 1, so that a loop that runs too long is seen).
MaxCalls == 6

\* question_index values offered to the store: 0..MaxQuestionIndex
MaxQuestionIndex == 1

\* voice_notes primary keys offered to the store: 1..MaxNoteIds
MaxNoteIds == 2

\* Deliveries of one question's voice-note event that are handled: at most
\* MaxDeliveries (2: the event and one replay).
MaxDeliveries == 2

\* Length of the fixed question list.
NumQuestions == 2

\* Where the count of scheduler sends per due window stops counting.
MaxWindowSends == 2

\* Where the counts of inbound and outbound texts stop counting.
MaxTexts == 3

\* The configured maximum of readiness retries.
MaxReadinessRetries == 2

-----------------------------------------------------------------------------
(* Messaging gateway: values *)

\* A phone number is the sequence of its characters.
DigitChars == {"0", "1", "2", "3", "4", "5", "6", "7", "8", "9"}

NationalNumber == <<"9", "8", "7", "6", "5", "4", "3", "2", "1", "0">>

\* Recipients offered to the gateway: 12 digits, the same with a leading "+",
\* a number that is too short; 10 and 15 digits, 9 and 16 digits, and 12
\* characters with a dash among them.
Recipients ==
    { <<"9", "1">> \o NationalNumber,
      <<"+", "9", "1">> \o NationalNumber,
      <<"1", "2", "3">>,
      NationalNumber,
      <<"0", "0", "9", "1", "1">> \o NationalNumber,
      SubSeq(NationalNumber, 1, 9),
      <<"0", "0", "0", "9", "1", "1">> \o NationalNumber,
      <<"9", "1", "-">> \o SubSeq(NationalNumber, 1, 9) }

\* What one provider request (client.messages.create, media fetch, axios.get)
\* does: it resolves, or it rejects with an error carrying `status` (the HTTP
\* status, 0 when the error has none) and `code` (the provider's error code,
\* 0 when it has none).
ProviderOk == [ok |-> TRUE, status |-> 201, code |-> 0]

ProviderError(status, code) == [ok |-> FALSE, status |-> status, code |-> code]

ProviderErrors ==
    { ProviderError(429, 20429),     \* rate limited
      ProviderError(503, 0),         \* provider unavailable
      ProviderError(401, 20003),     \* authentication failure
      ProviderError(400, 21211),     \* invalid recipient
      ProviderError(0, 0) }          \* network error, no status and no numeric code

ProviderResponses == {ProviderOk} \cup ProviderErrors

NoError == [ok |-> TRUE, status |-> 0, code |-> 0]

\* The JavaScript values the gateway functions return, as tags.
Returned(value) == [kind |-> "returned", value |-> value]

Threw(value) == [kind |-> "threw", value |-> value]

Running == [kind |-> "running", value |-> "none"]

\* The process environment: "full" (account SID, auth token and WhatsApp number
\* are all set), "credsOnly" (the number is missing), "none".
Configs == {"full", "credsOnly", "none"}

\* The shapes of a media URL: "twilio" holds /Messages/<sid>/Media/<sid>,
\* "mediaOnly" holds /Media/<sid> and no /Messages/<sid>/, "direct" holds neither.
MediaUrls == {"twilio", "mediaOnly", "direct"}

\* What a resolved media fetch reports: the content type ("" when absent) and
\* the parsed content length.
MediaMetas ==
    { [contentType |-> "audio/mpeg", contentLength |-> 2048],
      [contentType |-> "", contentLength |-> 0] }

NoArgs == [recipient |-> <<>>, config |-> "none", url |-> "none", to |-> <<>>]

NoInfo == [url |-> "none", mimeType |-> "none", sha256 |-> "none", fileSize |-> 0]

-----------------------------------------------------------------------------
(* Messaging gateway: pure helpers *)

\* The exported functions that send through retryWithBackoff.
SendOps == {"sendText", "sendTemplate"}

\* const toNumber = `whatsapp:${recipientNumber.startsWith("+") ?
\* recipientNumber : `+${recipientNumber}`}`; "whatsapp:" is one element.
toNumber(recipient) ==
    <<"whatsapp:">> \o
      (IF Len(recipient) > 0 /\ recipient[1] = "+" THEN recipient
       ELSE <<"+">> \o recipient)

\* As validateE164, for the pattern /^\+?\d{10,15}$/.
validateE164AllowsPlus(phone) ==
    LET digits == IF Len(phone) > 0 /\ phone[1] = "+" THEN Tail(phone) ELSE phone IN
    /\ Len(digits) >= 10
    /\ Len(digits) <= 15
    /\ \A i \in 1..Len(digits) : digits[i] \in DigitChars

validateE164(phone) ==
    /\ Len(phone) >= 10
    /\ Len(phone) <= 15
    /\ \A i \in 1..Len(phone) : phone[i] \in DigitChars

\* getConfig: null unless all three environment variables are set.
getConfig(config) == IF config = "full" THEN "config" ELSE "null"

\* getTwilioClient: null when getConfig is null.
getTwilioClient(config) == IF getConfig(config) = "null" THEN "null" ELSE "client"

\* The retry condition of retryWithBackoff's catch block.
IsRetryable(error) ==
    LET status == IF error.status # 0 THEN error.status ELSE error.code
    IN  \/ status = 429
        \/ error.code = 20003
        \/ (status >= 500 /\ status < 600)

\* As BackoffDelay, growing by initialDelayMs per attempt.
BackoffDelayLinear(attempt) == InitialDelayMs * (attempt + 1)

\* const delayMs = initialDelayMs * Math.pow(2, attempt).
BackoffDelay(attempt) == InitialDelayMs * (2 ^ attempt)

\* The loop condition of retryWithBackoff.
LoopContinues(attempt) == attempt <= MaxRetries

\* One iteration of retryWithBackoff's loop body: what happens after fn()
\* settled with `resp` in iteration `attempt`.
\* As retryWithBackoff, without the `return` of the try block: a resolved call
\* is followed by the next iteration like a retryable failure.
retryWithBackoffNoReturn(attempt, resp) ==
    IF (resp.ok \/ IsRetryable(resp)) /\ attempt < MaxRetries
    THEN "sleep"
    ELSE "threw"

retryWithBackoff(attempt, resp) ==
    IF resp.ok
    THEN "returned"
    ELSE IF IsRetryable(resp) /\ attempt < MaxRetries
         THEN "sleep"
         ELSE "threw"

\* The try/catch of sendTextMessageWithRetry around retryWithBackoff.
\* As sendTextMessageWithRetry, with a catch block that rethrows.
sendTextMessageWithRetryRethrows(rr) ==
    IF rr.kind = "threw" THEN Threw("error") ELSE Returned("true")

\* As sendTextMessageWithRetry, with a catch block that swallows the error.
sendTextMessageWithRetrySwallows(rr) == Returned("true")

sendTextMessageWithRetry(rr) ==
    IF rr.kind = "threw" THEN Returned("false") ELSE Returned("true")

\* The fallback object of downloadVoiceNoteMedia.
DefaultMediaInfo(url) ==
    [url |-> url, mimeType |-> "audio/ogg", sha256 |-> "", fileSize |-> 0]

\* Whether downloadVoiceNoteMedia goes on to fetch the media: the first
\* definition needs /Media/<sid>, the second /Media/<sid> and /Messages/<sid>/.
downloadVoiceNoteMediaMatches(ver, url) ==
    IF ver = 1 THEN url \in {"twilio", "mediaOnly"} ELSE url = "twilio"

\* As downloadVoiceNoteMedia, with a catch block that gives no media info.
downloadVoiceNoteMediaNoFallback(ver, url, resp, media) ==
    IF resp.ok
    THEN [url |-> IF ver = 1 THEN "media.uri" ELSE url,
          mimeType |-> IF media.contentType # "" THEN media.contentType
                       ELSE "audio/ogg",
          sha256 |-> "",
          fileSize |-> media.contentLength]
    ELSE NoInfo

\* As downloadVoiceNoteMedia, with a digest of the media in the metadata of a
\* resolved fetch.
downloadVoiceNoteMediaHashed(ver, url, resp, media) ==
    IF resp.ok
    THEN [url |-> IF ver = 1 THEN "media.uri" ELSE url,
          mimeType |-> IF media.contentType # "" THEN media.contentType
                       ELSE "audio/ogg",
          sha256 |-> "digest",
          fileSize |-> media.contentLength]
    ELSE DefaultMediaInfo(url)

\* What downloadVoiceNoteMedia returns once the media fetch settled with
\* `resp` (and `media` when it resolved): the media's metadata, or the
\* fallback object from the catch block.
downloadVoiceNoteMedia(ver, url, resp, media) ==
    IF resp.ok
    THEN [url |-> IF ver = 1 THEN "media.uri" ELSE url,
          mimeType |-> IF media.contentType # "" THEN media.contentType
                       ELSE "audio/ogg",
          sha256 |-> "",
          fileSize |-> media.contentLength]
    ELSE DefaultMediaInfo(url)

\* Where downloadMediaFile goes first. Second definition: null without
\* credentials, else the download. First definition: without a client the
\* direct download; with one, the media fetch when the URL holds both SIDs,
\* else the direct download.
downloadMediaFileFirst(ver, config, url) ==
    IF ver = 2
    THEN IF config = "none" THEN "return null" ELSE "get"
    ELSE IF getTwilioClient(config) = "null" THEN "get"
         ELSE IF url = "twilio" THEN "fetch" ELSE "get"

\* The try/catch of downloadMediaFile around a request that settled with `resp`.
downloadMediaFile(resp) ==
    IF resp.ok THEN Returned("Buffer") ELSE Returned("null")

\* How a finished send is classified by the spec's taxonomy: from the error
\* retryWithBackoff ended with.
FailureKind(rr) ==
    IF rr.kind # "threw" THEN "ok"
    ELSE IF rr.error.status = 429 \/ (rr.error.status >= 500 /\ rr.error.status < 600)
         THEN "transient"
         ELSE "permanent"

-----------------------------------------------------------------------------
(* Messaging gateway: steps *)

GwIdle ==
    /\ gwPc = "idle"
    /\ gwOp = "none"
    /\ gwVer = 2
    /\ gwArgs = NoArgs
    /\ gwAttempt = 0
    /\ gwCalls = <<>>
    /\ gwSleeps = <<>>
    /\ gwRetry = [kind |-> "none", error |-> NoError]
    /\ gwOut = Running
    /\ gwInfo = NoInfo
    /\ gwLog = {}

\* retryWithBackoff ended with `rr`; sendTextMessageWithRetry's try/catch
\* turns that into its own result.
SendTextFinish(rr) ==
    /\ gwRetry' = rr
    /\ gwOut' = sendTextMessageWithRetry(rr)
    /\ gwPc' = "done"
    /\ gwLog' = gwLog \cup
         {[kind |-> FailureKind(rr), value |-> sendTextMessageWithRetry(rr).value]}

\* The early returns of sendTextMessageWithRetry and
\* sendTemplateMessageWithRetry: no client, a recipient that fails
\* validateE164, no configuration.
SendPreChecksFail(recipient, config) ==
    \/ getTwilioClient(config) = "null"
    \/ ~validateE164(recipient)
    \/ getConfig(config) = "null"

\* sendTextMessageWithRetry up to the call of retryWithBackoff: the early
\* returns and the `to` address of the request.
SendTextMessageWithRetryStart ==
    /\ gwPc = "idle"
    /\ gwOp' = "sendText"
    /\ \E recipient \in Recipients, config \in Configs :
       IF SendPreChecksFail(recipient, config)
       THEN /\ gwArgs' = [recipient |-> recipient, config |-> config,
                          url |-> "none", to |-> <<>>]
            /\ gwPc' = "done"
            /\ gwOut' = Returned("false")
            /\ gwLog' = gwLog \cup {[kind |-> "rejected", value |-> "false"]}
       ELSE /\ gwArgs' = [recipient |-> recipient, config |-> config,
                          url |-> "none", to |-> toNumber(recipient)]
            /\ gwPc' = "call"
            /\ gwOut' = Running
            /\ gwLog' = gwLog
    /\ gwAttempt' = 0
    /\ gwCalls' = <<>>
    /\ gwSleeps' = <<>>
    /\ gwRetry' = [kind |-> "none", error |-> NoError]
    /\ gwVer' = 2
    /\ gwInfo' = NoInfo
    /\ UNCHANGED nonGwVars

\* sendTemplateMessageWithRetry up to the call of retryWithBackoff: the same
\* checks and the same `to` address.
SendTemplateMessageWithRetryStart ==
    /\ gwPc = "idle"
    /\ gwOp' = "sendTemplate"
    /\ \E recipient \in Recipients, config \in Configs :
       IF SendPreChecksFail(recipient, config)
       THEN /\ gwArgs' = [recipient |-> recipient, config |-> config,
                          url |-> "none", to |-> <<>>]
            /\ gwPc' = "done"
            /\ gwOut' = Returned("false")
            /\ gwLog' = gwLog \cup {[kind |-> "rejected", value |-> "false"]}
       ELSE /\ gwArgs' = [recipient |-> recipient, config |-> config,
                          url |-> "none", to |-> toNumber(recipient)]
            /\ gwPc' = "call"
            /\ gwOut' = Running
            /\ gwLog' = gwLog
    /\ gwAttempt' = 0
    /\ gwCalls' = <<>>
    /\ gwSleeps' = <<>>
    /\ gwRetry' = [kind |-> "none", error |-> NoError]
    /\ gwVer' = 2
    /\ gwInfo' = NoInfo
    /\ UNCHANGED nonGwVars


\* One `await fn()` of retryWithBackoff and the catch block after it.
RetryWithBackoffCall ==
    /\ gwPc = "call"
    /\ gwOp \in SendOps
    /\ Len(gwCalls) < MaxCalls
    /\ \E resp \in ProviderResponses :
         LET r == retryWithBackoff(gwAttempt, resp) IN
         /\ gwCalls' = Append(gwCalls, resp)
         /\ CASE r = "returned" ->
                   SendTextFinish([kind |-> "returned", error |-> NoError])
              [] r = "threw" ->
                   SendTextFinish([kind |-> "threw", error |-> resp])
              [] r = "sleep" ->
                   /\ gwPc' = "sleep"
                   /\ UNCHANGED <<gwRetry, gwOut, gwLog>>
    /\ UNCHANGED <<gwOp, gwVer, gwArgs, gwAttempt, gwSleeps, gwInfo>>
    /\ UNCHANGED nonGwVars

\* `await sleep(delayMs); continue`: the wait, attempt++ and the loop test;
\* when the loop ends, `throw lastError`.
RetryWithBackoffSleep ==
    /\ gwPc = "sleep"
    /\ gwSleeps' = Append(gwSleeps, BackoffDelay(gwAttempt))
    /\ gwAttempt' = gwAttempt + 1
    /\ IF LoopContinues(gwAttempt + 1)
       THEN /\ gwPc' = "call"
            /\ UNCHANGED <<gwRetry, gwOut, gwLog>>
       ELSE SendTextFinish([kind |-> "threw", error |-> gwCalls[Len(gwCalls)]])
    /\ UNCHANGED <<gwOp, gwVer, gwArgs, gwCalls, gwInfo>>
    /\ UNCHANGED nonGwVars

\* The caller takes the result; the gateway is free for the next call.
GwReturn ==
    /\ gwPc = "done"
    /\ gwPc' = "idle"
    /\ gwOp' = "none"
    /\ gwArgs' = NoArgs
    /\ gwAttempt' = 0
    /\ gwCalls' = <<>>
    /\ gwSleeps' = <<>>
    /\ gwRetry' = [kind |-> "none", error |-> NoError]
    /\ gwOut' = Running
    /\ gwInfo' = NoInfo
    /\ gwVer' = 2
    /\ UNCHANGED gwLog
    /\ UNCHANGED nonGwVars

\* A gateway function that makes no use of retryWithBackoff starts: the
\* retry state stays clear.
GwStartPlain(op, ver, config, url) ==
    /\ gwPc = "idle"
    /\ gwOp' = op
    /\ gwVer' = ver
    /\ gwArgs' = [recipient |-> <<>>, config |-> config, url |-> url, to |-> <<>>]
    /\ gwCalls' = <<>>
    /\ UNCHANGED <<gwAttempt, gwSleeps, gwRetry, gwLog>>
    /\ UNCHANGED nonGwVars

\* downloadVoiceNoteMedia up to the media fetch: the configuration checks
\* and the match of the URL against /Media/<sid> (and, in the second
\* definition, /Messages/<sid>/).
DownloadVoiceNoteMediaStart ==
    \E ver \in {1, 2}, config \in Configs, url \in MediaUrls :
      /\ GwStartPlain("downloadVoiceNoteMedia", ver, config, url)
      /\ IF getConfig(config) = "null" \/ getTwilioClient(config) = "null"
         THEN /\ gwPc' = "done"
              /\ gwOut' = Returned("null")
              /\ gwInfo' = NoInfo
         ELSE IF downloadVoiceNoteMediaMatches(ver, url)
              THEN /\ gwPc' = "fetch"
                   /\ gwOut' = Running
                   /\ gwInfo' = NoInfo
              ELSE /\ gwPc' = "done"
                   /\ gwOut' = Returned("info")
                   /\ gwInfo' = DefaultMediaInfo(url)

\* `await client.messages(..).media(..).fetch()` of downloadVoiceNoteMedia and
\* the return or the catch block that follows it.
DownloadVoiceNoteMediaFetch ==
    /\ gwPc = "fetch"
    /\ gwOp = "downloadVoiceNoteMedia"
    /\ \E resp \in ProviderResponses, media \in MediaMetas :
         /\ gwCalls' = Append(gwCalls, resp)
         /\ gwInfo' = downloadVoiceNoteMedia(gwVer, gwArgs.url, resp, media)
    /\ gwPc' = "done"
    /\ gwOut' = Returned("info")
    /\ UNCHANGED <<gwOp, gwVer, gwArgs, gwAttempt, gwSleeps, gwRetry, gwLog>>
    /\ UNCHANGED nonGwVars

\* downloadMediaFile up to its first request.
DownloadMediaFileStart ==
    \E ver \in {1, 2}, config \in Configs, url \in MediaUrls :
      /\ GwStartPlain("downloadMediaFile", ver, config, url)
      /\ gwInfo' = NoInfo
      /\ LET first == downloadMediaFileFirst(ver, config, url) IN
         IF first = "return null"
         THEN /\ gwPc' = "done"
              /\ gwOut' = Returned("null")
         ELSE /\ gwPc' = first
              /\ gwOut' = Running

\* First definition only: the media fetch that precedes the download of a
\* Twilio media URL.
DownloadMediaFileFetch ==
    /\ gwPc = "fetch"
    /\ gwOp = "downloadMediaFile"
    /\ \E resp \in ProviderResponses :
         /\ gwCalls' = Append(gwCalls, resp)
         /\ IF resp.ok
            THEN /\ gwPc' = "get"
                 /\ gwOut' = Running
            ELSE /\ gwPc' = "done"
                 /\ gwOut' = downloadMediaFile(resp)
    /\ UNCHANGED <<gwOp, gwVer, gwArgs, gwAttempt, gwSleeps, gwRetry, gwInfo, gwLog>>
    /\ UNCHANGED nonGwVars

\* `await axios.get(..)` of downloadMediaFile and the return or the catch
\* block that follows it.
DownloadMediaFileGet ==
    /\ gwPc = "get"
    /\ gwOp = "downloadMediaFile"
    /\ \E resp \in ProviderResponses :
         /\ gwCalls' = Append(gwCalls, resp)
         /\ gwOut' = downloadMediaFile(resp)
    /\ gwPc' = "done"
    /\ UNCHANGED <<gwOp, gwVer, gwArgs, gwAttempt, gwSleeps, gwRetry, gwInfo, gwLog>>
    /\ UNCHANGED nonGwVars

GwNext ==
    \/ SendTextMessageWithRetryStart
    \/ SendTemplateMessageWithRetryStart
    \/ RetryWithBackoffCall
    \/ RetryWithBackoffSleep
    \/ DownloadVoiceNoteMediaStart
    \/ DownloadVoiceNoteMediaFetch
    \/ DownloadMediaFileStart
    \/ DownloadMediaFileFetch
    \/ DownloadMediaFileGet
    \/ GwReturn


-----------------------------------------------------------------------------
(* Store: the free_trials and voice_notes tables *)

NULL == "NULL"

TrialIds == {"t1", "t2"}

MediaIds == {"m1", "m2"}

NoteIds == 1..MaxNoteIds

QuestionIndexes == 0..MaxQuestionIndex

DownloadStatuses == {"pending", "downloading", "completed", "failed"}

\* A free_trials row as INSERT leaves it: the column defaults, the nullable
\* timestamps NULL.
DefaultTrial ==
    [conversation_state |-> "awaiting_initial_contact",
     current_question_index |-> 0,
     retry_readiness_at |-> NULL,
     retry_count |-> 0,
     last_readiness_response |-> NULL,
     welcome_sent_at |-> NULL,
     readiness_asked_at |-> NULL,
     last_question_sent_at |-> NULL,
     reminder_sent_at |-> NULL,
     next_question_scheduled_for |-> NULL]

\* A voice_notes row as INSERT leaves it: download_status defaults to pending.
NewVoiceNote(id, trial, q, media) ==
    [id |-> id,
     free_trial_id |-> trial,
     question_index |-> q,
     media_id |-> media,
     download_status |-> "pending"]

\* PRIMARY KEY of voice_notes.
PrimaryKeyViolation(rows, id) == \E r \in rows : r.id = id

\* FOREIGN KEY voice_notes.free_trial_id -> free_trials.id.
ForeignKeyViolation(trials, trial) == trial \notin DOMAIN trials

\* As InsertVoiceNoteRows, for an insert that replaces the row holding the
\* (free_trial_id, question_index) slot.
InsertVoiceNoteRowsOverwrite(rows, trials, row) ==
    IF PrimaryKeyViolation(rows, row.id) \/ ForeignKeyViolation(trials, row.free_trial_id)
    THEN rows
    ELSE {r \in rows : ~(r.free_trial_id = row.free_trial_id
                          /\ r.question_index = row.question_index)} \cup {row}

\* As UniqueViolation, for a table without the unique index.
UniqueViolationNoIndex(rows, trial, q) == FALSE

\* UNIQUE INDEX voice_notes_trial_question_idx (free_trial_id, question_index).
UniqueViolation(rows, trial, q) ==
    \E r \in rows : r.free_trial_id = trial /\ r.question_index = q

RowsOf(rows, trial, q) ==
    {r \in rows : r.free_trial_id = trial /\ r.question_index = q}

\* The outcome of INSERT INTO voice_notes.
InsertVoiceNoteResult(rows, trials, row) ==
    IF PrimaryKeyViolation(rows, row.id) THEN "pk_violation"
    ELSE IF ForeignKeyViolation(trials, row.free_trial_id) THEN "fk_violation"
    ELSE IF UniqueViolation(rows, row.free_trial_id, row.question_index)
         THEN "unique_violation"
         ELSE "ok"

\* The table after INSERT INTO voice_notes: a rejected statement changes nothing.
InsertVoiceNoteRows(rows, trials, row) ==
    IF InsertVoiceNoteResult(rows, trials, row) = "ok" THEN rows \cup {row} ELSE rows

Statement(op, trial, q, result) ==
    [op |-> op, trial |-> trial, q |-> q, result |-> result]

DbInit ==
    /\ free_trials = [t \in {"t1"} |-> DefaultTrial]
    /\ voice_notes = {}
    /\ dbResult = Statement("none", "t1", 0, "ok")

\* INSERT INTO free_trials (id, ...) with the column defaults.
InsertFreeTrial ==
    \E t \in TrialIds :
      /\ t \notin DOMAIN free_trials
      /\ free_trials' = [x \in DOMAIN free_trials \cup {t} |->
                           IF x = t THEN DefaultTrial ELSE free_trials[x]]
      /\ dbResult' = Statement("insert_free_trial", t, 0, "ok")
      /\ UNCHANGED voice_notes
      /\ UNCHANGED nonDbVars

\* DELETE FROM free_trials: ON DELETE cascade removes the trial's voice notes.
DeleteFreeTrial ==
    \E t \in DOMAIN free_trials :
      /\ free_trials' = [x \in DOMAIN free_trials \ {t} |-> free_trials[x]]
      /\ voice_notes' = {r \in voice_notes : r.free_trial_id # t}
      /\ dbResult' = Statement("delete_free_trial", t, 0, "ok")
      /\ UNCHANGED nonDbVars

\* INSERT INTO voice_notes with any key, trial, question and media.
InsertVoiceNote ==
    \E id \in NoteIds, t \in TrialIds, q \in QuestionIndexes, m \in MediaIds :
      LET row == NewVoiceNote(id, t, q, m) IN
      /\ voice_notes' = InsertVoiceNoteRows(voice_notes, free_trials, row)
      /\ dbResult' = Statement("insert_voice_note", t, q,
                               InsertVoiceNoteResult(voice_notes, free_trials, row))
      /\ UNCHANGED free_trials
      /\ UNCHANGED nonDbVars

\* UPDATE voice_notes SET download_status = .. WHERE id = ..
UpdateVoiceNote ==
    \E r \in voice_notes, st \in DownloadStatuses :
      /\ voice_notes' = (voice_notes \ {r}) \cup {[r EXCEPT !.download_status = st]}
      /\ dbResult' = Statement("update_voice_note", r.free_trial_id,
                               r.question_index, "ok")
      /\ UNCHANGED free_trials
      /\ UNCHANGED nonDbVars

StoreNext ==
    \/ InsertFreeTrial
    \/ DeleteFreeTrial
    \/ InsertVoiceNote
    \/ UpdateVoiceNote

-----------------------------------------------------------------------------
(* Conversation state machine: values and transitions *)

\* The trial the conversation model follows.
T == "t1"

\* Concurrent executions of a webhook delivery or of the scheduler's tick.
Handlers == {"h1", "h2"}

\* question_index values of the conversation: the list's indexes and the one
\* past its end.
ConvQuestions == 0..NumQuestions

\* What the gateway hands back: sendTextMessageWithRetry's boolean,
\* downloadVoiceNoteMedia's object or null, downloadMediaFile's buffer or null.
SendResults ==
    {sendTextMessageWithRetry([kind |-> kind]).value : kind \in {"returned", "threw"}}

MediaInfoResults == {"info", "null"}

MediaFileResults == {"Buffer", "null"}

Idle == [kind |-> "idle", q |-> 0]

Waiting(kind, q) == [kind |-> kind, q |-> q]

NoSend == [kind |-> "none", q |-> 0, ok |-> "none"]

SendReturned(kind, q, ok) == [kind |-> kind, q |-> q, ok |-> ok]

\* The sends the scheduler decides.
TickKinds == {"readiness_retry", "question_next", "reminder"}

Trial == free_trials[T]

\* A timestamp is NULL, "past" (<= now) or "future" (> now).
Due(timestamp) == timestamp = "past"

\* awaiting_initial_contact -> welcome_sent, once the onboarding message is sent.
WelcomeSent(tr) ==
    [tr EXCEPT !.conversation_state = "welcome_sent", !.welcome_sent_at = "past"]

\* As ReadinessAsked, without the stamp of readiness_asked_at.
ReadinessAskedNoStamp(tr) ==
    [tr EXCEPT !.conversation_state = "awaiting_readiness",
               !.retry_readiness_at = "future"]

\* welcome_sent -> awaiting_readiness, once the readiness check is sent; the
\* timer for an absent reply is armed.
ReadinessAsked(tr) ==
    [tr EXCEPT !.conversation_state = "awaiting_readiness",
               !.readiness_asked_at = "past",
               !.retry_readiness_at = "future"]

\* awaiting_readiness -> questioning, once the question at
\* current_question_index is sent after an affirmative reply.
QuestioningStarted(tr) ==
    [tr EXCEPT !.conversation_state = "questioning",
               !.last_readiness_response = "affirmative",
               !.last_question_sent_at = "past",
               !.next_question_scheduled_for = "future"]

\* The readiness retry: increment retry_count, re-arm retry_readiness_at; if
\* retry_count exceeds the max, stalled.
ReadinessRetry(tr) ==
    [tr EXCEPT !.retry_count = @ + 1,
               !.retry_readiness_at = "future",
               !.conversation_state =
                  IF tr.retry_count + 1 > MaxReadinessRetries THEN "stalled" ELSE @]

\* The retry on a negative or ambiguous reply.
NegativeReplied(tr) ==
    [ReadinessRetry(tr) EXCEPT !.last_readiness_response = "negative"]

\* The retry on an elapsed timer, once the readiness check is sent again.
ReadinessResent(tr) ==
    [ReadinessRetry(tr) EXCEPT !.readiness_asked_at = "past"]

\* As ClaimWindow, for a scheduler that leaves the driving timestamp alone
\* until the send is over.
ClaimWindowLate(tr, field) == tr

\* As ReleaseWindow, for a scheduler that keeps the window claimed after a
\* failed send.
ReleaseWindowNever(tr, field) == tr

\* The scheduler's send decision: the driving timestamp is moved into the
\* future in the transaction that decides the send.
ClaimWindow(tr, field) == [tr EXCEPT ![field] = "future"]

\* A failed scheduler send: the driving timestamp is due again.
ReleaseWindow(tr, field) == [tr EXCEPT ![field] = "past"]

\* The scheduled question at current_question_index is sent.
QuestionSent(tr) == [tr EXCEPT !.last_question_sent_at = "past"]

\* questioning -> reminder_sent, once the reminder is sent.
ReminderSent(tr) ==
    [tr EXCEPT !.conversation_state = "reminder_sent", !.reminder_sent_at = "past"]

\* reminder_sent -> questioning on the next tick.
BackToQuestioning(tr) == [tr EXCEPT !.conversation_state = "questioning"]

\* The advance on an accepted voice note: increment current_question_index;
\* if it exceeds the list's length, completed; else schedule the following
\* question, which is not sent yet.
Advance(tr) ==
    IF tr.current_question_index + 1 > NumQuestions
    THEN [tr EXCEPT !.current_question_index = @ + 1,
                    !.conversation_state = "completed"]
    ELSE [tr EXCEPT !.current_question_index = @ + 1,
                    !.conversation_state = "questioning",
                    !.last_question_sent_at = NULL,
                    !.next_question_scheduled_for = "future"]

\* Step 1 of the ingestion pipeline: a voice note that is already completed
\* for the (trial, question) is a duplicate.
IsDuplicateAnswer(rows, q) ==
    \E r \in RowsOf(rows, T, q) : r.download_status = "completed"

\* As CanApplyIngestion, without the re-check of the row.
CanApplyIngestionUnchecked(rows, q) == TRUE

\* The re-check before an ingestion's outcome is applied: the row has not been
\* completed by another delivery meanwhile.
CanApplyIngestion(rows, q) == ~IsDuplicateAnswer(rows, q)

\* voice_notes with the row of (T, q) set to `status`.
WithStatus(rows, q, status) ==
    {IF r.free_trial_id = T /\ r.question_index = q
     THEN [r EXCEPT !.download_status = status] ELSE r : r \in rows}

\* Step 2 of the ingestion pipeline: insert a pending row, or, when the unique
\* index rejects the insert, reuse the row that holds the slot as pending.
InsertOrReuse(rows, trials, q) ==
    LET row == NewVoiceNote(Cardinality(rows) + 1, T, q, "m1") IN
    IF InsertVoiceNoteResult(rows, trials, row) = "ok"
    THEN InsertVoiceNoteRows(rows, trials, row)
    ELSE WithStatus(rows, q, "pending")

Count(n, max) == IF n < max THEN n + 1 ELSE max

InFlight(kinds) == {p \in Handlers : h[p].kind \in kinds}

NoTexts == [inbound |-> 0, welcome |-> 0, readiness |-> 0]

\* The counts of texts after a step of a handler: an inbound text starts the
\* send of a welcome, of the first readiness check or of the first question;
\* an accepted send of the welcome or of a readiness check is a text sent.
TextsAfter(counts, position, send) ==
    IF send = NoSend
    THEN IF position.kind \in {"welcome", "readiness_first", "question_first"}
         THEN [counts EXCEPT !.inbound = Count(@, MaxTexts)]
         ELSE counts
    ELSE IF send.ok # "true" THEN counts
    ELSE IF send.kind = "welcome"
         THEN [counts EXCEPT !.welcome = Count(@, MaxTexts)]
    ELSE IF send.kind \in {"readiness_first", "readiness_retry"}
         THEN [counts EXCEPT !.readiness = Count(@, MaxTexts)]
    ELSE counts

\* As IngestionAccepted, for a pipeline that reports to the state machine
\* whatever the outcome of the download.
IngestionAcceptedAnyOutcome(ok, rows, tr, q) ==
    /\ CanApplyIngestion(rows, q)
    /\ tr.conversation_state \in {"questioning", "reminder_sent"}
    /\ tr.current_question_index = q

\* Step 6 of the ingestion pipeline: success is reported to the state
\* machine, which advances when the voice note is for current_question_index.
IngestionAccepted(ok, rows, tr, q) ==
    /\ ok
    /\ CanApplyIngestion(rows, q)
    /\ tr.conversation_state \in {"questioning", "reminder_sent"}
    /\ tr.current_question_index = q

-----------------------------------------------------------------------------
(* Conversation state machine: steps *)

ConvIdle ==
    /\ h = [p \in Handlers |-> Idle]
    /\ lastSend = NoSend
    /\ delivered = [q \in ConvQuestions |-> 0]
    /\ ingested = [q \in ConvQuestions |-> FALSE]
    /\ advanced = [q \in ConvQuestions |-> 0]
    /\ windowSends = 0
    /\ misses = 0
    /\ texts = NoTexts

\* A step of handler p on the trial: its new position, the trial's new row
\* and the send result it received, if any.
Step(p, position, row, send) ==
    /\ h' = [h EXCEPT ![p] = position]
    /\ free_trials' = [free_trials EXCEPT ![T] = row]
    /\ lastSend' = send
    /\ texts' = TextsAfter(texts, position, send)
    /\ UNCHANGED <<gwVars, phoneVars>>

NotesUnchanged == UNCHANGED <<voice_notes, dbResult, delivered, ingested, advanced>>

\* The storyteller's first inbound message: the onboarding message is sent.
FirstContact(p) ==
    /\ h[p] = Idle
    /\ Trial.conversation_state = "awaiting_initial_contact"
    /\ Step(p, Waiting("welcome", 0), Trial, NoSend)
    /\ NotesUnchanged
    /\ UNCHANGED <<windowSends, misses>>

\* sendStorytellerOnboarding returned: on success welcome_sent, and the
\* readiness check is sent at once.
WelcomeResult(p) ==
    /\ h[p].kind = "welcome"
    /\ \E ok \in SendResults :
         IF ok = "true" /\ Trial.conversation_state = "awaiting_initial_contact"
         THEN Step(p, Waiting("readiness_first", 0), WelcomeSent(Trial),
                   SendReturned("welcome", 0, ok))
         ELSE Step(p, Idle, Trial, SendReturned("welcome", 0, ok))
    /\ NotesUnchanged
    /\ UNCHANGED <<windowSends, misses>>

\* An inbound message while the trial is welcome_sent (the readiness check
\* has not gone out): the readiness check is sent.
ContactAgain(p) ==
    /\ h[p] = Idle
    /\ Trial.conversation_state = "welcome_sent"
    /\ InFlight({"readiness_first"}) = {}
    /\ Step(p, Waiting("readiness_first", 0), Trial, NoSend)
    /\ NotesUnchanged
    /\ UNCHANGED <<windowSends, misses>>

\* sendReadinessCheck returned for the first readiness check.
ReadinessFirstResult(p) ==
    /\ h[p].kind = "readiness_first"
    /\ \E ok \in SendResults :
         IF ok = "true" /\ Trial.conversation_state = "welcome_sent"
         THEN Step(p, Idle, ReadinessAsked(Trial),
                   SendReturned("readiness_first", 0, ok))
         ELSE Step(p, Idle, Trial, SendReturned("readiness_first", 0, ok))
    /\ NotesUnchanged
    /\ UNCHANGED <<windowSends, misses>>

\* An affirmative reply to the readiness check: the question at
\* current_question_index is sent.
AffirmativeReply(p) ==
    /\ h[p] = Idle
    /\ Trial.conversation_state = "awaiting_readiness"
    /\ Step(p, Waiting("question_first", Trial.current_question_index), Trial, NoSend)
    /\ NotesUnchanged
    /\ UNCHANGED <<windowSends, misses>>

\* The send of the first question returned.
QuestionFirstResult(p) ==
    /\ h[p].kind = "question_first"
    /\ \E ok \in SendResults :
         IF /\ ok = "true"
            /\ Trial.conversation_state = "awaiting_readiness"
            /\ Trial.current_question_index = h[p].q
         THEN Step(p, Idle, QuestioningStarted(Trial),
                   SendReturned("question_first", h[p].q, ok))
         ELSE Step(p, Idle, Trial, SendReturned("question_first", h[p].q, ok))
    /\ NotesUnchanged
    /\ UNCHANGED <<windowSends, misses>>

\* A negative or ambiguous reply to the readiness check: the retry
\* transition, with no send.
NegativeReply ==
    /\ Trial.conversation_state = "awaiting_readiness"
    /\ free_trials' = [free_trials EXCEPT ![T] = NegativeReplied(Trial)]
    /\ misses' = Count(misses, MaxReadinessRetries + 1)
    /\ texts' = [texts EXCEPT !.inbound = Count(@, MaxTexts)]
    /\ lastSend' = NoSend
    /\ NotesUnchanged
    /\ UNCHANGED <<h, windowSends, gwVars, phoneVars>>

\* Scheduler, query 1: retry_readiness_at is due in awaiting_readiness. When
\* one more retry exceeds the max the trial stalls and nothing is sent; else
\* the window is claimed and the readiness check is sent again.
TickReadiness(p) ==
    /\ h[p] = Idle
    /\ Trial.conversation_state = "awaiting_readiness"
    /\ Due(Trial.retry_readiness_at)
    /\ IF Trial.retry_count + 1 > MaxReadinessRetries
       THEN /\ Step(p, Idle, ReadinessRetry(Trial), NoSend)
            /\ misses' = Count(misses, MaxReadinessRetries + 1)
       ELSE /\ Step(p, Waiting("readiness_retry", 0),
                    ClaimWindow(Trial, "retry_readiness_at"), NoSend)
            /\ UNCHANGED misses
    /\ NotesUnchanged
    /\ UNCHANGED windowSends

\* sendReadinessCheck returned for a retry: on success the retry transition
\* is applied; on failure the window is released.
ReadinessRetryResult(p) ==
    /\ h[p].kind = "readiness_retry"
    /\ \E ok \in SendResults :
         LET waiting == Trial.conversation_state = "awaiting_readiness" IN
         /\ Step(p, Idle,
                 IF ~waiting THEN Trial
                 ELSE IF ok = "true" THEN ReadinessResent(Trial)
                 ELSE ReleaseWindow(Trial, "retry_readiness_at"),
                 SendReturned("readiness_retry", 0, ok))
         /\ windowSends' = IF ok = "true" THEN Count(windowSends, MaxWindowSends)
                           ELSE windowSends
         /\ misses' = IF ok = "true" /\ waiting
                      THEN Count(misses, MaxReadinessRetries + 1) ELSE misses
    /\ NotesUnchanged

\* Scheduler, query 2, when the question at current_question_index has not
\* been sent yet: the window is claimed and the question is sent.
TickQuestion(p) ==
    /\ h[p] = Idle
    /\ Trial.conversation_state = "questioning"
    /\ Due(Trial.next_question_scheduled_for)
    /\ Trial.last_question_sent_at = NULL
    /\ Step(p, Waiting("question_next", Trial.current_question_index),
            ClaimWindow(Trial, "next_question_scheduled_for"), NoSend)
    /\ NotesUnchanged
    /\ UNCHANGED <<windowSends, misses>>

\* As StillAsking, without the re-check of the precondition.
StillAskingUnchecked(tr, q) == TRUE

\* Whether the send a scheduler tick decided for question q still applies.
StillAsking(tr, q) ==
    tr.conversation_state = "questioning" /\ tr.current_question_index = q

\* The send of a scheduled question returned.
QuestionNextResult(p) ==
    /\ h[p].kind = "question_next"
    /\ \E ok \in SendResults :
         /\ Step(p, Idle,
                 IF ~StillAsking(Trial, h[p].q) THEN Trial
                 ELSE IF ok = "true" THEN QuestionSent(Trial)
                 ELSE ReleaseWindow(Trial, "next_question_scheduled_for"),
                 SendReturned("question_next", h[p].q, ok))
         /\ windowSends' = IF ok = "true" THEN Count(windowSends, MaxWindowSends)
                           ELSE windowSends
    /\ NotesUnchanged
    /\ UNCHANGED misses

\* Scheduler, query 2, when the question has been sent and no voice note
\* exists for it: the window is claimed and a reminder is sent.
TickReminder(p) ==
    /\ h[p] = Idle
    /\ Trial.conversation_state = "questioning"
    /\ Due(Trial.next_question_scheduled_for)
    /\ Trial.last_question_sent_at # NULL
    /\ RowsOf(voice_notes, T, Trial.current_question_index) = {}
    /\ Step(p, Waiting("reminder", Trial.current_question_index),
            ClaimWindow(Trial, "next_question_scheduled_for"), NoSend)
    /\ NotesUnchanged
    /\ UNCHANGED <<windowSends, misses>>

\* The send of a reminder returned.
ReminderResult(p) ==
    /\ h[p].kind = "reminder"
    /\ \E ok \in SendResults :
         /\ Step(p, Idle,
                 IF ~StillAsking(Trial, h[p].q) THEN Trial
                 ELSE IF ok = "true" THEN ReminderSent(Trial)
                 ELSE ReleaseWindow(Trial, "next_question_scheduled_for"),
                 SendReturned("reminder", h[p].q, ok))
         /\ windowSends' = IF ok = "true" THEN Count(windowSends, MaxWindowSends)
                           ELSE windowSends
    /\ NotesUnchanged
    /\ UNCHANGED misses

\* The tick after a reminder: back to questioning.
TickReturn ==
    /\ Trial.conversation_state = "reminder_sent"
    /\ free_trials' = [free_trials EXCEPT ![T] = BackToQuestioning(Trial)]
    /\ lastSend' = NoSend
    /\ NotesUnchanged
    /\ UNCHANGED <<h, windowSends, misses, texts, gwVars, phoneVars>>

\* An inbound voice-note event {trial, question_index q, media} is delivered
\* (steps 1 and 2 of the ingestion pipeline). An event exists for the
\* questions asked so far; the same event may be delivered again.
VoiceNoteEvent(p, q) ==
    /\ h[p] = Idle
    /\ Trial.conversation_state \in {"questioning", "reminder_sent", "completed"}
    /\ q <= Trial.current_question_index
    /\ delivered[q] + Cardinality({x \in InFlight({"ingest"}) : h[x].q = q})
         < MaxDeliveries
    /\ IF IsDuplicateAnswer(voice_notes, q)
       THEN /\ delivered' = [delivered EXCEPT ![q] = @ + 1]
            /\ UNCHANGED <<h, voice_notes, dbResult>>
       ELSE /\ h' = [h EXCEPT ![p] = Waiting("ingest", q)]
            /\ voice_notes' = InsertOrReuse(voice_notes, free_trials, q)
            /\ dbResult' = Statement("insert_voice_note", T, q,
                  InsertVoiceNoteResult(voice_notes, free_trials,
                     NewVoiceNote(Cardinality(voice_notes) + 1, T, q, "m1")))
            /\ UNCHANGED delivered
    /\ lastSend' = NoSend
    /\ UNCHANGED <<free_trials, ingested, advanced, windowSends, misses, texts, gwVars, phoneVars>>

\* downloadVoiceNoteMedia and downloadMediaFile returned (steps 3 to 6): with
\* the bytes the row is completed and the state machine advances, both in one
\* transaction; without them the row is failed.
IngestResult(p) ==
    /\ h[p].kind = "ingest"
    /\ \E info \in MediaInfoResults, bytes \in MediaFileResults :
         LET q == h[p].q
             ok == info # "null" /\ bytes # "null"
             applies == CanApplyIngestion(voice_notes, q)
             accepted == IngestionAccepted(ok, voice_notes, Trial, q)
         IN
         /\ voice_notes' = IF ~applies THEN voice_notes
                           ELSE WithStatus(voice_notes, q,
                                           IF ok THEN "completed" ELSE "failed")
         /\ free_trials' = [free_trials EXCEPT ![T] =
                              IF accepted THEN Advance(Trial) ELSE Trial]
         /\ advanced' = [advanced EXCEPT ![q] = IF accepted THEN @ + 1 ELSE @]
         /\ ingested' = [ingested EXCEPT ![q] = @ \/ ok]
         /\ delivered' = [delivered EXCEPT ![q] = @ + 1]
    /\ h' = [h EXCEPT ![p] = Idle]
    /\ lastSend' = NoSend
    /\ UNCHANGED <<dbResult, windowSends, misses, texts, gwVars, phoneVars>>

\* Time passes: a timestamp in the future falls due. A network call ends
\* within seconds and the intervals are hours, so no window falls due while
\* the send decided for it is still in flight.
TimePasses ==
    /\ InFlight(TickKinds) = {}
    /\ \E field \in {"retry_readiness_at", "next_question_scheduled_for"} :
         /\ Trial[field] = "future"
         /\ free_trials' = [free_trials EXCEPT ![T][field] = "past"]
    /\ windowSends' = 0
    /\ lastSend' = NoSend
    /\ NotesUnchanged
    /\ UNCHANGED <<h, misses, texts, gwVars, phoneVars>>

ConvNext ==
    \/ \E p \in Handlers : FirstContact(p)
    \/ \E p \in Handlers : WelcomeResult(p)
    \/ \E p \in Handlers : ContactAgain(p)
    \/ \E p \in Handlers : ReadinessFirstResult(p)
    \/ \E p \in Handlers : AffirmativeReply(p)
    \/ \E p \in Handlers : QuestionFirstResult(p)
    \/ NegativeReply
    \/ \E p \in Handlers : TickReadiness(p)
    \/ \E p \in Handlers : ReadinessRetryResult(p)
    \/ \E p \in Handlers : TickQuestion(p)
    \/ \E p \in Handlers : QuestionNextResult(p)
    \/ \E p \in Handlers : TickReminder(p)
    \/ \E p \in Handlers : ReminderResult(p)
    \/ TickReturn
    \/ \E p \in Handlers, q \in ConvQuestions : VoiceNoteEvent(p, q)
    \/ \E p \in Handlers : IngestResult(p)
    \/ TimePasses

-----------------------------------------------------------------------------
(* Phone numbers: normalizePhoneNumber *)

IsDigit(c) == c \in DigitChars

\* As normalizePhoneNumber, with the country-code test not tied to the length.
normalizePhoneNumberAnyLength(phone) ==
    LET cleaned == SelectSeq(phone, IsDigit) IN
    IF Len(cleaned) >= 2 /\ SubSeq(cleaned, 1, 2) = <<"9", "1">> THEN cleaned
    ELSE IF Len(cleaned) = 10 THEN <<"9", "1">> \o cleaned
    ELSE cleaned

\* As normalizePhoneNumber, with 91 put in front of up to 10 digits.
normalizePhoneNumberUpToTen(phone) ==
    LET cleaned == SelectSeq(phone, IsDigit) IN
    IF Len(cleaned) = 12 /\ SubSeq(cleaned, 1, 2) = <<"9", "1">> THEN cleaned
    ELSE IF Len(cleaned) <= 10 THEN <<"9", "1">> \o cleaned
    ELSE cleaned

\* phone.replace(/\D/g, ""), then: 12 digits starting with 91 as they are,
\* 10 digits with 91 in front, anything else as it is.
normalizePhoneNumber(phone) ==
    LET cleaned == SelectSeq(phone, IsDigit) IN
    IF Len(cleaned) = 12 /\ SubSeq(cleaned, 1, 2) = <<"9", "1">> THEN cleaned
    ELSE IF Len(cleaned) = 10 THEN <<"9", "1">> \o cleaned
    ELSE cleaned

\* 10-digit national numbers: two leading digits and a run of one digit;
\* some start with 91.
PhoneNationalNumbers ==
    {<<a, b, c, c, c, c, c, c, c, c>> : a \in {"9", "1", "0"}, b \in {"9", "1", "0"},
                                        c \in {"1", "0", "7"}}

\* What a caller writes in front of the national number.
PhonePrefixes == {<<>>, <<"9", "1">>, <<"+", "9", "1">>, <<"+">>, <<"0">>, <<"1">>}

\* Non-digit separators: none, a space, a dash, brackets.
PhoneSeparators == {<<>>, <<" ">>, <<"-">>, <<"(", ")">>}

PhoneSeparatorPositions == {0, 3, 5}

\* `phone` with `sep` after its first k characters.
Separated(phone, sep, k) ==
    SubSeq(phone, 1, k) \o sep \o SubSeq(phone, k + 1, Len(phone))

\* Strings that hold no phone number, and numbers of 8, 9, 12 and 13 digits
\* that get no prefix.
PhoneOddInputs ==
    {<<>>, <<"a", "b", "c">>, <<"1", "2", "3">>, <<"+">>,
     <<"9", "1">>, <<"9", "1", "-", "9", "1">>,
     <<"9", "1", "7", "7", "7", "7", "7", "7">>,
     <<"9", "1", "7", "7", "7", "7", "7", "7", "7">>,
     <<"1", "2", "7", "7", "7", "7", "7", "7", "7", "7", "7", "7">>,
     <<"+", "9", "1", "7", "7", "7", "7", "7", "7", "7", "7", "7", "7", "7">>}

PhoneInputs ==
    {Separated(pre \o d, sep, k) :
        pre \in PhonePrefixes, d \in PhoneNationalNumbers,
        sep \in PhoneSeparators, k \in PhoneSeparatorPositions}
    \cup PhoneOddInputs

PhoneIdle ==
    /\ phonePc = "idle"
    /\ phoneIn = <<>>
    /\ phoneOut = <<>>
    /\ phoneAgain = <<>>

\* A caller has a string to normalize.
PhoneInit ==
    /\ phonePc = "input"
    /\ phoneIn \in PhoneInputs
    /\ phoneOut = <<>>
    /\ phoneAgain = <<>>

\* normalizePhoneNumber(phone).
NormalizePhoneNumber ==
    /\ phonePc = "input"
    /\ phoneOut' = normalizePhoneNumber(phoneIn)
    /\ phonePc' = "normalized"
    /\ UNCHANGED <<phoneIn, phoneAgain>>
    /\ UNCHANGED nonPhoneVars

\* normalizePhoneNumber applied to a number that was normalized before.
NormalizePhoneNumberAgain ==
    /\ phonePc = "normalized"
    /\ phoneAgain' = normalizePhoneNumber(phoneOut)
    /\ phonePc' = "renormalized"
    /\ UNCHANGED <<phoneIn, phoneOut>>
    /\ UNCHANGED nonPhoneVars

PhoneNext ==
    \/ NormalizePhoneNumber
    \/ NormalizePhoneNumberAgain

-----------------------------------------------------------------------------
(* Specifications *)

\* The gateway functions alone, called one after the other with every
\* argument and every provider behaviour.
GwInit == GwIdle /\ DbInit /\ ConvIdle /\ PhoneIdle

GatewaySpec == GwInit /\ [][GwNext]_vars

\* The tables alone, under every statement.
StoreInit == GwIdle /\ DbInit /\ ConvIdle /\ PhoneIdle

StoreSpec == StoreInit /\ [][StoreNext]_vars

\* One trial driven by inbound messages, voice-note events and scheduler
\* ticks, handled by concurrent executions.
ConvInit == GwIdle /\ DbInit /\ ConvIdle /\ PhoneIdle

ConvSpec == ConvInit /\ [][ConvNext]_vars

\* normalizePhoneNumber on every input of PhoneInputs.
PhoneSpecInit == GwIdle /\ DbInit /\ ConvIdle /\ PhoneInit

PhoneSpec == PhoneSpecInit /\ [][PhoneNext]_vars

-----------------------------------------------------------------------------
(* Properties of the store (checked under StoreSpec) *)

\* C1: no two voice_notes rows share (free_trial_id, question_index), and an
\* INSERT for a pair that already has a row is rejected with a unique
\* violation (or an earlier constraint) and leaves the table as it was.
C1_UniqueTrialQuestion ==
    /\ [](\A r1, r2 \in voice_notes :
            (r1.free_trial_id = r2.free_trial_id
               /\ r1.question_index = r2.question_index) => r1 = r2)
    /\ [][(dbResult'.op = "insert_voice_note"
            /\ dbResult' # dbResult
            /\ RowsOf(voice_notes, dbResult'.trial, dbResult'.q) # {})
          => (dbResult'.result # "ok" /\ voice_notes' = voice_notes)]_vars

\* C1 witness: an INSERT was rejected by the unique index and the row that
\* held the pair is still there.
C1_Witness ==
    /\ dbResult.op = "insert_voice_note"
    /\ dbResult.result = "unique_violation"
    /\ Cardinality(RowsOf(voice_notes, dbResult.trial, dbResult.q)) = 1

-----------------------------------------------------------------------------
(* Properties of the conversation (checked under ConvSpec) *)

Row(q) == CHOOSE r \in RowsOf(voice_notes, T, q) : TRUE

DeliveriesOver(q) ==
    /\ delivered[q] >= 2
    /\ \A p \in InFlight({"ingest"}) : h[p].q # q

\* C2: ingestion is idempotent under duplicate delivery. For every question,
\* at any time there is at most one VoiceNote row for (trial, question) and
\* current_question_index has advanced past it at most once; and once the
\* same voice-note event has been delivered twice, in sequence or
\* interleaved, there is exactly one row, which is completed with the index
\* advanced exactly once when the media could be ingested, and neither
\* completed nor advanced when it could not.
C2_IdempotentIngestion ==
    \A q \in ConvQuestions :
      /\ Cardinality(RowsOf(voice_notes, T, q)) <= 1
      /\ advanced[q] <= 1
      /\ DeliveriesOver(q) =>
           /\ Cardinality(RowsOf(voice_notes, T, q)) = 1
           /\ ingested[q] =>
                /\ Row(q).download_status = "completed"
                /\ advanced[q] = 1
                /\ Trial.current_question_index > q
           /\ ~ingested[q] =>
                /\ Row(q).download_status # "completed"
                /\ advanced[q] = 0

C2_Witness ==
    /\ DeliveriesOver(0)
    /\ ingested[0]
    /\ RowsOf(voice_notes, T, 0) # {}
    /\ Row(0).download_status = "completed"
    /\ advanced[0] = 1
    /\ Trial.current_question_index = 1

\* C3: current_question_index never decreases, and every step that changes
\* it adds one and is the step that records the VoiceNote of the prior index
\* as completed: not a step where that ingestion failed or is pending, not
\* the handling of a text reply, not a scheduler tick.
C3_IndexAdvancesOnCompletedNote ==
    [][Trial'.current_question_index # Trial.current_question_index =>
         /\ Trial'.current_question_index = Trial.current_question_index + 1
         /\ \E r \in RowsOf(voice_notes', T, Trial.current_question_index) :
              r.download_status = "completed"
         /\ \A r \in RowsOf(voice_notes, T, Trial.current_question_index) :
              r.download_status # "completed"
         /\ \E p \in Handlers : /\ h[p] = Waiting("ingest", Trial.current_question_index)
                                /\ h'[p] = Idle
         /\ lastSend' = NoSend]_vars

C3_Witness ==
    /\ Trial.current_question_index = 2
    /\ advanced[0] = 1
    /\ advanced[1] = 1
    /\ RowsOf(voice_notes, T, 1) # {}
    /\ Row(1).download_status = "completed"

\* C4: after MaxReadinessRetries consecutive non-affirmative or absent
\* readiness replies the trial is stalled.
C4_StalledAfterMaxRetries ==
    misses >= MaxReadinessRetries => Trial.conversation_state = "stalled"

\* The rest of C4: stalled is absorbing, and from a stalled trial no
\* scheduler tick decides a readiness send.
C4_StalledAbsorbing ==
    [][Trial.conversation_state = "stalled" =>
         /\ Trial'.conversation_state = "stalled"
         /\ InFlight({"readiness_retry"})' \subseteq InFlight({"readiness_retry"})]_vars

\* C5: the scheduler's tick is safe under repetition. Between two moments at
\* which a driving timestamp falls due, the scheduler's executions together
\* send at most one message, at most one of them has a send decided and not
\* ended, and while it has, the trial is due for no further send.
C5_TickSendsAtMostOnce ==
    /\ windowSends <= 1
    /\ Cardinality(InFlight(TickKinds)) <= 1
    /\ InFlight(TickKinds) # {} =>
         /\ windowSends = 0
         /\ ~(Trial.conversation_state = "awaiting_readiness"
              /\ Due(Trial.retry_readiness_at))
         /\ ~(Trial.conversation_state = "questioning"
              /\ Due(Trial.next_question_scheduled_for))

C5_Witness ==
    /\ windowSends = 1
    /\ lastSend.kind \in {"readiness_retry", "reminder"}
    /\ lastSend.ok = "true"
    /\ \E p \in Handlers : h[p] = Idle
    /\ Trial.conversation_state \in {"awaiting_readiness", "reminder_sent"}
    /\ ~Due(Trial.retry_readiness_at)
    /\ ~Due(Trial.next_question_scheduled_for)

\* The timestamp that drives a scheduler send.
DrivingTimestamp(kind) ==
    IF kind = "readiness_retry" THEN "retry_readiness_at"
    ELSE "next_question_scheduled_for"

\* Whether the outbound action (kind, q) is what the trial's row calls for.
ActionApplies(tr, kind, q) ==
    CASE kind = "welcome" -> tr.conversation_state = "awaiting_initial_contact"
      [] kind = "readiness_first" -> tr.conversation_state = "welcome_sent"
      [] kind = "question_first" -> tr.conversation_state = "awaiting_readiness"
      [] kind = "readiness_retry" -> tr.conversation_state = "awaiting_readiness"
      [] OTHER -> StillAsking(tr, q)

\* C6: the step in which the gateway reports a send failure for an outbound
\* action changes neither conversation_state, current_question_index,
\* retry_count nor any stamp of the trial, and leaves the action due: its
\* state is unchanged, and for a scheduler send that the row still calls for
\* the driving timestamp is due as it was when the send was decided, the
\* only thing the step writes being the release of the decision's claim.
C6_SendFailureLeavesActionDue ==
    [][lastSend'.ok = "false" =>
         /\ Trial'.conversation_state = Trial.conversation_state
         /\ Trial'.current_question_index = Trial.current_question_index
         /\ Trial'.retry_count = Trial.retry_count
         /\ IF lastSend'.kind \in TickKinds
            THEN /\ \E stamp \in {"past", Trial[DrivingTimestamp(lastSend'.kind)]} :
                      Trial' = [Trial EXCEPT ![DrivingTimestamp(lastSend'.kind)] = stamp]
                 /\ ActionApplies(Trial, lastSend'.kind, lastSend'.q) =>
                      Due(Trial'[DrivingTimestamp(lastSend'.kind)])
            ELSE Trial' = Trial]_vars

C6_Witness ==
    /\ lastSend = SendReturned("reminder", 1, "false")
    /\ Trial.conversation_state = "questioning"
    /\ Trial.current_question_index = 1
    /\ Trial.reminder_sent_at = NULL
    /\ Due(Trial.next_question_scheduled_for)

\* C13: a VoiceNote row starts pending, and a completed row stays as it is
\* in every later state: no replayed event, retried ingestion or failed
\* download moves it back to pending, downloading or failed.
C13_CompletedNeverRegresses ==
    [][/\ \A r \in voice_notes' :
            (\A o \in voice_notes : o.id # r.id) => r.download_status = "pending"
       /\ \A r \in voice_notes :
            r.download_status = "completed" => r \in voice_notes']_vars

\* C13 witness: the event of a completed voice note was delivered again
\* while its first ingestion was running, and that ingestion is still to end.
C13_Witness ==
    /\ RowsOf(voice_notes, T, 0) # {}
    /\ Row(0).download_status = "completed"
    /\ \E p \in Handlers : h[p] = Waiting("ingest", 0)

\* C14: while every ingestion of a voice-note event has failed before the
\* row was marked completed, the (trial, question) has one row, pending or
\* failed, and current_question_index is unchanged; and a row once inserted
\* keeps its key, trial, question and media, so that a retry of the event
\* runs on that row and creates no second one.
C14_FailedIngestionRetriesSameRow ==
    /\ [](\A q \in ConvQuestions :
            (delivered[q] >= 1 /\ ~ingested[q]) =>
              /\ Cardinality(RowsOf(voice_notes, T, q)) = 1
              /\ Row(q).download_status \in {"pending", "failed"}
              /\ advanced[q] = 0
              /\ Trial.current_question_index = q)
    /\ [][\A r \in voice_notes :
            \E n \in voice_notes' :
              /\ n.id = r.id
              /\ n.free_trial_id = r.free_trial_id
              /\ n.question_index = r.question_index
              /\ n.media_id = r.media_id]_vars

\* C14 witness: the first ingestion of question 0's voice note failed and the
\* retry of the event is running on the same row.
C14_Witness ==
    /\ delivered[0] = 1
    /\ ~ingested[0]
    /\ \E p \in Handlers : h[p] = Waiting("ingest", 0)
    /\ Cardinality(voice_notes) = 1
    /\ Row(0).download_status = "pending"
    /\ Trial.current_question_index = 0

\* C15: 0 <= retry_count <= MaxReadinessRetries in every reachable state,
\* the stalled ones included.
C15_RetryCountBounded ==
    /\ Trial.retry_count >= 0
    /\ Trial.retry_count <= MaxReadinessRetries

\* C16: in questioning and in reminder_sent, current_question_index is the
\* index of a question of the list: 0 <= index < NumQuestions.
C16_IndexWithinQuestionList ==
    Trial.conversation_state \in {"questioning", "reminder_sent"} =>
      /\ Trial.current_question_index >= 0
      /\ Trial.current_question_index < NumQuestions

AnsweredQuestions == {q \in ConvQuestions : IsDuplicateAnswer(voice_notes, q)}

\* C17: a transition decided before blocking I/O is applied only if its
\* precondition still holds afterwards. current_question_index is the number
\* of answered questions, which are the ones below it, however the
\* voice-note events and the ticks interleave (two concurrent events for one
\* question advance it by one); and a reminder is recorded only by the step
\* that receives the accepted send of a reminder for the question that
\* current_question_index still names and that has no completed voice note.
C17_TransitionsRechecked ==
    /\ [](/\ AnsweredQuestions = {q \in ConvQuestions : q < Trial.current_question_index}
          /\ Trial.current_question_index = Cardinality(AnsweredQuestions)
          /\ \A q \in ConvQuestions : advanced[q] = IF q \in AnsweredQuestions THEN 1 ELSE 0)
    /\ [][(\/ Trial'.reminder_sent_at # Trial.reminder_sent_at
           \/ (Trial'.conversation_state = "reminder_sent"
               /\ Trial.conversation_state # "reminder_sent")) =>
            /\ lastSend' = SendReturned("reminder", Trial.current_question_index, "true")
            /\ Trial.conversation_state = "questioning"
            /\ Trial.current_question_index \notin AnsweredQuestions
            /\ Trial'.current_question_index = Trial.current_question_index]_vars

\* C17 witness: the reminder for question 0 was accepted by the gateway
\* after the voice note for question 0 had been ingested, and it was not
\* recorded.
C17_Witness ==
    /\ lastSend = SendReturned("reminder", 0, "true")
    /\ Trial.current_question_index = 1
    /\ Trial.conversation_state = "questioning"
    /\ Trial.reminder_sent_at = NULL
    /\ advanced[0] = 1

-----------------------------------------------------------------------------
(* Properties of normalizePhoneNumber (checked under PhoneSpec) *)

PhoneNormalized == phonePc \in {"normalized", "renormalized"}

\* C19: normalizePhoneNumber returns decimal digits only, for every input;
\* and for every 10-digit national number d, the inputs d, "91"+d and
\* "+91"+d, with or without non-digit separators, normalize to "91"+d.
C19_NormalizesToOneForm ==
    PhoneNormalized =>
      /\ \A i \in 1..Len(phoneOut) : phoneOut[i] \in DigitChars
      /\ \A d \in PhoneNationalNumbers, pre \in {<<>>, <<"9", "1">>, <<"+", "9", "1">>},
            sep \in PhoneSeparators, k \in PhoneSeparatorPositions :
           phoneIn = Separated(pre \o d, sep, k) =>
             phoneOut = <<"9", "1">> \o d

\* C19 witness: "+91 " in front of a national number that itself starts
\* with 91, normalized to 91 and the number.
C19_Witness ==
    /\ PhoneNormalized
    /\ phoneIn = <<"+", "9", "1", " ", "9", "1", "7", "7", "7", "7", "7", "7", "7", "7">>
    /\ phoneOut = <<"9", "1", "9", "1", "7", "7", "7", "7", "7", "7", "7", "7">>

PhoneRenormalized == phonePc = "renormalized"

\* C23: normalizePhoneNumber is idempotent: applied to its own result it
\* returns that result, for every input; an input of 10 digits gets 91 in
\* front the first time and nothing the second time.
C23_NormalizeIdempotent ==
    PhoneRenormalized =>
      /\ phoneAgain = phoneOut
      /\ Len(SelectSeq(phoneIn, IsDigit)) = 10 =>
           /\ phoneOut = <<"9", "1">> \o SelectSeq(phoneIn, IsDigit)
           /\ Len(phoneAgain) = 12

\* C23 witness: a 10-digit number that itself starts with 91 got the prefix
\* once, and the second normalization left the 12 digits as they were.
C23_Witness ==
    /\ PhoneRenormalized
    /\ phoneIn = <<"9", "1", "7", "7", "7", "7", "7", "7", "7", "7">>
    /\ phoneOut = <<"9", "1">> \o phoneIn
    /\ phoneAgain = <<"9", "1">> \o phoneIn

-----------------------------------------------------------------------------
(* Properties of the messaging gateway (checked under GatewaySpec) *)

SendRunning == gwOp = "sendText" /\ gwPc \in {"call", "sleep"}

SendDone == gwOp = "sendText" /\ gwPc = "done"

LastCall == gwCalls[Len(gwCalls)]

\* The claim's reading of a permanent provider error: an HTTP status that is
\* neither 429 nor 5xx.
IsPermanentError(error) ==
    /\ ~error.ok
    /\ error.status # 429
    /\ ~(error.status >= 500 /\ error.status < 600)

\* C7: retryWithBackoff invokes the wrapped operation at most MaxRetries + 1
\* times and then ends: no invocation follows a resolved one, a resolved call
\* is returned at once (the send returns true), a throw carries the error of
\* the last invocation (the send returns false), and while the send is running
\* a step of it is always possible and each sleep is followed by one more call
\* at most, so every send completes.
C7_RetriesBounded ==
    gwOp = "sendText" =>
      /\ Len(gwCalls) <= MaxRetries + 1
      /\ Len(gwSleeps) <= MaxRetries
      /\ Len(gwSleeps) <= Len(gwCalls)
      /\ gwAttempt = Len(gwSleeps)
      /\ \A i \in 1..(Len(gwCalls) - 1) : ~gwCalls[i].ok
      /\ SendRunning => ENABLED (RetryWithBackoffCall \/ RetryWithBackoffSleep)
      /\ gwRetry.kind = "returned" =>
           /\ LastCall.ok
           /\ gwPc = "done"
           /\ gwOut = Returned("true")
      /\ gwRetry.kind = "threw" =>
           /\ ~LastCall.ok
           /\ gwRetry.error = LastCall
           /\ gwPc = "done"
           /\ gwOut = Returned("false")
      /\ (Len(gwCalls) > 0 /\ LastCall.ok) => gwRetry.kind = "returned"

\* C7 witness: a send that used every allowed attempt and failed.
C7_Witness ==
    /\ SendDone
    /\ Len(gwCalls) = MaxRetries + 1
    /\ gwRetry.kind = "threw"
    /\ gwOut = Returned("false")

\* C8 (as claimed): a provider error whose status is neither 429 nor 5xx is
\* never retried: it is the last invocation, no sleep follows it and the send
\* has returned failure.
C8_PermanentNeverRetried ==
    gwOp = "sendText" =>
      \A i \in 1..Len(gwCalls) :
        IsPermanentError(gwCalls[i]) =>
          /\ i = Len(gwCalls)
          /\ gwPc = "done"
          /\ gwOut = Returned("false")

\* C9 (as claimed): a send that failed transiently and a send that failed
\* permanently are never reported with the same value.
C9_ReportsFailureKind ==
    \A a, b \in gwLog :
      (a.kind = "transient" /\ b.kind = "permanent") => a.value # b.value

\* C9 (amended): the send reports success or failure only: its result is a
\* boolean, true exactly when the provider accepted the message and false for
\* every failure, whatever its kind.
C9_ReportsBoolean ==
    /\ \A a \in gwLog :
         /\ a.value \in {"true", "false"}
         /\ a.value = "true" <=> a.kind = "ok"
    /\ SendDone =>
         /\ gwOut.kind = "returned"
         /\ gwOut.value \in {"true", "false"}
         /\ gwOut.value = "true" <=> (Len(gwCalls) > 0 /\ LastCall.ok)

\* C9 witness: a transient and a permanent failure have both been reported,
\* both as false.
C9_Witness ==
    /\ [kind |-> "transient", value |-> "false"] \in gwLog
    /\ [kind |-> "permanent", value |-> "false"] \in gwLog

\* C10: no gateway function ends with an exception: whatever the provider
\* does, with or without credentials, with a valid or an invalid recipient,
\* sendTextMessageWithRetry ends with a boolean, downloadVoiceNoteMedia with a
\* media-info object or null, downloadMediaFile with a buffer or null.
C10_NeverThrows ==
    /\ gwOut.kind # "threw"
    /\ gwPc = "done" =>
         /\ gwOut.kind = "returned"
         /\ gwOp = "sendText" => gwOut.value \in {"true", "false"}
         /\ gwOp = "downloadVoiceNoteMedia" => gwOut.value \in {"info", "null"}
         /\ gwOp = "downloadMediaFile" => gwOut.value \in {"Buffer", "null"}

\* C10 witness: a send whose last provider call was rejected has ended, with a
\* value.
C10_Witness ==
    /\ SendDone
    /\ Len(gwCalls) > 0
    /\ ~LastCall.ok
    /\ gwOut.kind = "returned"

\* The claim's reading of a transient provider error: rate limiting (429) or
\* a 5xx status.
IsTransientError(error) ==
    /\ ~error.ok
    /\ (error.status = 429 \/ (error.status >= 500 /\ error.status < 600))

DownloadDone == gwOp = "downloadMediaFile" /\ gwPc = "done"

MetadataDone == gwOp = "downloadVoiceNoteMedia" /\ gwPc = "done"

\* C11 (as claimed): the media download follows the bounded-retry policy of
\* the sends: a download that ended without the bytes after a transient
\* failure has made MaxRetries + 1 attempts, so that two transient failures
\* followed by a success yield the bytes.
C11_DownloadRetriesTransient ==
    (DownloadDone /\ Len(gwCalls) > 0 /\ IsTransientError(LastCall)) =>
      /\ gwOut = Returned("null")
      /\ Len(gwCalls) >= MaxRetries + 1

\* C12 (as claimed): when the media-metadata fetch fails permanently,
\* downloadVoiceNoteMedia reports a failure and no metadata result.
C12_MetadataFailureReported ==
    (MetadataDone /\ Len(gwCalls) > 0 /\ IsPermanentError(LastCall)) =>
      gwOut # Returned("info")

\* C12 (amended): when the media-metadata fetch fails, permanently or not,
\* downloadVoiceNoteMedia returns the fallback metadata (the URL it was
\* given, audio/ogg, no hash, size 0), as it does for a URL it does not
\* recognise; it returns null only when the Twilio configuration or client is
\* missing, before any request.
C12_MetadataFailureFallsBack ==
    MetadataDone =>
      /\ (Len(gwCalls) > 0 /\ ~LastCall.ok) =>
           /\ gwOut = Returned("info")
           /\ gwInfo = DefaultMediaInfo(gwArgs.url)
      /\ gwOut = Returned("null") <=>
           (getConfig(gwArgs.config) = "null" \/ getTwilioClient(gwArgs.config) = "null")
      /\ gwOut = Returned("null") => gwCalls = <<>>
      /\ gwOut \in {Returned("info"), Returned("null")}

\* C12 witness: the metadata fetch was rejected with a permanent error and
\* the fallback metadata came back.
C12_Witness ==
    /\ MetadataDone
    /\ Len(gwCalls) = 1
    /\ IsPermanentError(LastCall)
    /\ gwOut = Returned("info")
    /\ gwInfo = DefaultMediaInfo(gwArgs.url)

\* C20: the wait before the retry that follows failed attempt k is
\* InitialDelayMs * 2^k, that is 1000, 2000 and 4000 ms; the waits are
\* strictly increasing; every wait follows a rejected call; and there is no
\* wait after the last allowed attempt or after a resolved call.
C20_BackoffExponential ==
    gwOp = "sendText" =>
      /\ \A i \in 1..Len(gwSleeps) : gwSleeps[i] = InitialDelayMs * (2 ^ (i - 1))
      /\ gwSleeps = SubSeq(<<1000, 2000, 4000>>, 1, Len(gwSleeps))
      /\ \A i \in 1..(Len(gwSleeps) - 1) : gwSleeps[i] < gwSleeps[i + 1]
      /\ Len(gwSleeps) <= MaxRetries
      /\ Len(gwSleeps) <= Len(gwCalls)
      /\ \A i \in 1..Len(gwSleeps) : ~gwCalls[i].ok
      /\ gwPc = "sleep" =>
           /\ ~LastCall.ok
           /\ Len(gwCalls) <= MaxRetries
           /\ Len(gwSleeps) = Len(gwCalls) - 1
      /\ (gwPc \in {"call", "done"} /\ Len(gwCalls) > 0) =>
           Len(gwSleeps) = Len(gwCalls) - (IF gwPc = "call" THEN 0 ELSE 1)

\* C20 witness: a send that waited before each of its three retries.
C20_Witness ==
    /\ gwOp = "sendText"
    /\ gwSleeps = <<1000, 2000, 4000>>
    /\ Len(gwCalls) = 4

\* C21: sendTextMessageWithRetry and sendTemplateMessageWithRetry make no
\* provider request and return false whenever the recipient is not 10 to 15
\* decimal digits, a number with a leading "+" included, or the Twilio
\* configuration is not set; and every request they make is addressed to
\* "whatsapp:+" followed by the recipient's 10 to 15 digits.
C21_NoRequestForInvalidRecipient ==
    gwOp \in SendOps =>
      LET recipient == gwArgs.recipient
          digitsOnly == /\ Len(recipient) \in 10..15
                        /\ \A i \in 1..Len(recipient) : recipient[i] \in DigitChars
      IN
      /\ (~digitsOnly \/ gwArgs.config # "full") =>
           /\ gwCalls = <<>>
           /\ gwSleeps = <<>>
           /\ gwPc = "done"
           /\ gwOut = Returned("false")
      /\ (Len(recipient) > 0 /\ recipient[1] = "+") => gwCalls = <<>>
      /\ (gwPc \in {"call", "sleep"} \/ Len(gwCalls) > 0) =>
           /\ digitsOnly
           /\ gwArgs.to = <<"whatsapp:", "+">> \o recipient
           /\ Len(gwArgs.to) \in 12..17
           /\ \A i \in 3..Len(gwArgs.to) : gwArgs.to[i] \in DigitChars

\* C21 witness: a template send to a number written with a leading "+",
\* with the configuration set, returned false without a request.
C21_Witness ==
    /\ gwOp = "sendTemplate"
    /\ gwPc = "done"
    /\ gwArgs.config = "full"
    /\ gwArgs.recipient = <<"+", "9", "1">> \o NationalNumber
    /\ gwCalls = <<>>
    /\ gwOut = Returned("false")

\* C22: every object downloadVoiceNoteMedia returns has sha256 = "", after a
\* resolved media fetch, after a rejected one and for a URL that is returned
\* as it is; downloadMediaFile returns the bytes or null and no metadata;
\* and no gateway operation leaves a content hash anywhere.
C22_NoContentHash ==
    /\ gwInfo.sha256 \in {"", NoInfo.sha256}
    /\ MetadataDone =>
         /\ gwOut \in {Returned("info"), Returned("null")}
         /\ (gwOut = Returned("info")) <=> (gwInfo # NoInfo)
         /\ gwOut = Returned("info") =>
              /\ gwInfo.sha256 = ""
              /\ gwInfo.url # NoInfo.url
    /\ DownloadDone =>
         /\ gwOut \in {Returned("Buffer"), Returned("null")}
         /\ gwInfo = NoInfo
    /\ (gwOp \in SendOps /\ gwPc = "done") =>
         /\ gwOut \in {Returned("true"), Returned("false")}
         /\ gwInfo = NoInfo

\* C22 witness: the media fetch resolved with the media's content type and
\* length, and the metadata returned carries them with an empty sha256.
C22_Witness ==
    /\ MetadataDone
    /\ Len(gwCalls) = 1
    /\ LastCall.ok
    /\ gwOut = Returned("info")
    /\ gwInfo.mimeType = "audio/mpeg"
    /\ gwInfo.fileSize = 2048
    /\ gwInfo.sha256 = ""

====
